---- MODULE Spec2Model ----
(***************************************************************************)
(* Model of the review engine of backend/server.py: the flashcard batch    *)
(* selection (get_flashcards, "NextBatch") and the progress update         *)
(* (update_word_progress, "RecordResponse") over the two MongoDB           *)
(* collections "words" (the catalog) and "word_progress" (the store).      *)
(*                                                                         *)
(* Spec      runs whole handlers one after the other (one request at a     *)
(*           time, as a single event loop runs these await-free handlers). *)
(* SpecConc  runs the handlers of several workers sharing the database,    *)
(*           one store operation per step.                                 *)
(*                                                                         *)
(* SpecStats  adds the statistics endpoint, SpecFail store operations that  *)
(*           raise, SpecStreak a record of the responses a client sent.    *)
(*                                                                         *)
(* Timestamps (next_review, updated_at) and the texts of a word are        *)
(* carried by the code but never read by it; they are left out.            *)
(***************************************************************************)
EXTENDS Integers, Sequences, FiniteSets, TLC

VARIABLES catalog, progress, call, ret, prevOp, procs, streak

vars == <<catalog, progress, call, ret, prevOp, procs, streak>>

\* ---------------------------------------------------------------- bounds
MaxWords == 3       \* the catalog holds 0..MaxWords words
MaxLimit == 4       \* limit ranges over -2..MaxLimit
NumProcs == 2       \* workers of SpecConc
MaxConcWords == 1   \* SpecConc: the catalog holds 0..MaxConcWords words
MaxFailWords == 2   \* SpecFail: the catalog holds 0..MaxFailWords words
MaxStreakWords == 2 \* SpecStreak: the catalog holds 0..MaxStreakWords words

\* ------------------------------------------------------- program constants
MaxStrength == 5
MinStrength == 0

Min(a, b) == IF a < b THEN a ELSE b
Max(a, b) == IF a > b THEN a ELSE b

\* Word ids are uuid strings; they are numbered here. The catalog is
\* <<1, ..., n>>; MaxWords + 1 is an id that is never in the catalog.
WordIds == 1..(MaxWords + 1)
Limits == (0 - 2)..MaxLimit
Procs == 1..NumProcs

Range(s) == {s[i] : i \in DOMAIN s}

\* ---------------------------------------------------- the store interface
\* uuid.uuid4(): an identifier different from every identifier in use (the
\* least unused number, which keeps the identifiers finite).
uuid4(used) ==
  CHOOSE m \in 1..(Cardinality(used) + 1) :
    m \notin used /\ \A x \in 1..(m - 1) : x \in used

Ids(coll) == {coll[i].id : i \in DOMAIN coll}

\* collection.find_one({field: value}): the first matching document in natural
\* order, as a set of zero (None) or one document.
MatchIdx(coll, field, value) == {i \in DOMAIN coll : coll[i][field] = value}

FirstIdx(S) == CHOOSE i \in S : \A j \in S : i <= j

LastIdx(S) == CHOOSE i \in S : \A j \in S : j <= i

find_one(coll, field, value) ==
  LET S == MatchIdx(coll, field, value)
  IN IF S = {} THEN {} ELSE {coll[FirstIdx(S)]}

\* collection.insert_one(doc)
insert_one(coll, doc) == Append(coll, doc)

\* Variant of update_one: the filter left empty, every document updated.
update_one_noFilter(coll, id, update_data) ==
  [i \in DOMAIN coll |->
     [coll[i] EXCEPT !.status = update_data.status,
                     !.strength = update_data.strength]]

\* collection.update_one({"id": id}, {"$set": update_data}): sets the fields of
\* the first document whose id matches; matches nothing -> no change (no upsert).
update_one(coll, id, update_data) ==
  LET S == MatchIdx(coll, "id", id)
  IN IF S = {} THEN coll
     ELSE [coll EXCEPT ![FirstIdx(S)] =
             [@ EXCEPT !.status = update_data.status,
                       !.strength = update_data.strength]]

\* Variants of WordExists: no existence check at all; the word looked up in the
\* progress collection instead of the words collection.
WordExists_always(word_id) == TRUE

WordExists_inProgress(word_id) == MatchIdx(progress, "word_id", word_id) # {}

\* words_collection.find_one({"id": word_id}) is not None
WordExists(word_id) == word_id \in Range(catalog)

\* {p.get("word_id"): p for p in all_progress}: a later document of the same
\* word replaces an earlier one.
ProgressByWordId(all_progress) ==
  [w \in {all_progress[i].word_id : i \in DOMAIN all_progress} |->
     all_progress[LastIdx(MatchIdx(all_progress, "word_id", w))]]

\* ------------------------------------------------------- get_flashcards
\* Variant of NewProgress: the default strength set to 1.
NewProgress_strengthOne(id, word_id) ==
  [id |-> id, word_id |-> word_id, status |-> "new", strength |-> 1]

\* The document of a word that has no progress yet.
NewProgress(id, word_id) ==
  [id |-> id, word_id |-> word_id, status |-> "new", strength |-> 0]

\* Variant of Lacks: the membership test dropped from the creation loop.
Lacks_always(pbw, word_id) == TRUE

\* Variant of Lacks: the membership test inverted.
Lacks_inverted(pbw, word_id) == word_id \in DOMAIN pbw

\* `if word_id not in progress_by_word_id`
Lacks(pbw, word_id) == word_id \notin DOMAIN pbw

\* One iteration of the loop that creates the missing progress documents.
\* st = [store, pbw]; `used` are the identifiers held outside the store.
CreateOne(st, word_id, used) ==
  IF Lacks(st.pbw, word_id)
  THEN LET new_progress == NewProgress(uuid4(Ids(st.store) \cup used), word_id)
       IN [store |-> insert_one(st.store, new_progress),
           pbw |-> [w \in DOMAIN st.pbw \cup {word_id} |->
                      IF w = word_id THEN new_progress ELSE st.pbw[w]]]
  ELSE st

\* The whole loop over all_words[1..k].
RECURSIVE CreateMissing(_, _, _, _)
CreateMissing(st, all_words, k, used) ==
  IF k = 0 THEN st
  ELSE CreateOne(CreateMissing(st, all_words, k - 1, used), all_words[k], used)

\* progress_by_word_id.get(id, {}).get("status") / .get("strength", 0)
StatusOf(pbw, w) == IF w \in DOMAIN pbw THEN pbw[w].status ELSE "None"

StrengthOf(pbw, w) == IF w \in DOMAIN pbw THEN pbw[w].strength ELSE 0

\* Variant of Bucket: the words gathered in reverse catalog order.
RECURSIVE Bucket_reversed(_, _, _)
Bucket_reversed(all_words, pbw, status) ==
  IF all_words = <<>> THEN <<>>
  ELSE LET rest == Bucket_reversed(SubSeq(all_words, 1, Len(all_words) - 1), pbw, status)
           w == all_words[Len(all_words)]
       IN IF StatusOf(pbw, w) = status THEN <<w>> \o rest ELSE rest

\* [word for word in all_words if status(word) == status]
RECURSIVE Bucket(_, _, _)
Bucket(all_words, pbw, status) ==
  IF all_words = <<>> THEN <<>>
  ELSE LET rest == Bucket(SubSeq(all_words, 1, Len(all_words) - 1), pbw, status)
           w == all_words[Len(all_words)]
       IN IF StatusOf(pbw, w) = status THEN Append(rest, w) ELSE rest

\* Variant of Insert: `<` for `<=`, a sort that is not stable.
RECURSIVE Insert_unstable(_, _, _)
Insert_unstable(sorted, w, pbw) ==
  IF sorted = <<>> THEN <<w>>
  ELSE IF StrengthOf(pbw, sorted[Len(sorted)]) < StrengthOf(pbw, w)
       THEN Append(sorted, w)
       ELSE Append(Insert_unstable(SubSeq(sorted, 1, Len(sorted) - 1), w, pbw),
                   sorted[Len(sorted)])

\* list.sort(key=strength): a stable sort, ascending. Insert w after every
\* element whose key is not greater.
RECURSIVE Insert(_, _, _)
Insert(sorted, w, pbw) ==
  IF sorted = <<>> THEN <<w>>
  ELSE IF StrengthOf(pbw, sorted[Len(sorted)]) <= StrengthOf(pbw, w)
       THEN Append(sorted, w)
       ELSE Append(Insert(SubSeq(sorted, 1, Len(sorted) - 1), w, pbw),
                   sorted[Len(sorted)])

RECURSIVE SortByStrength(_, _)
SortByStrength(words, pbw) ==
  IF words = <<>> THEN <<>>
  ELSE Insert(SortByStrength(SubSeq(words, 1, Len(words) - 1), pbw),
              words[Len(words)], pbw)

\* Variant of Combined: the known words left out of the concatenation.
Combined_noKnown(all_words, pbw) ==
  Bucket(all_words, pbw, "new")
    \o SortByStrength(Bucket(all_words, pbw, "learning"), pbw)

\* new_words + learning_words + known_words
Combined(all_words, pbw) ==
  Bucket(all_words, pbw, "new")
    \o SortByStrength(Bucket(all_words, pbw, "learning"), pbw)
    \o Bucket(all_words, pbw, "known")

\* Variant of Slice: seq[:limit + 1].
Slice_offByOne(seq, limit) ==
  IF limit + 1 >= 0 THEN SubSeq(seq, 1, IF limit + 1 < Len(seq) THEN limit + 1 ELSE Len(seq))
  ELSE SubSeq(seq, 1, IF Len(seq) + limit + 1 > 0 THEN Len(seq) + limit + 1 ELSE 0)

\* Python's seq[:limit]: a negative limit counts from the end.
Slice(seq, limit) ==
  IF limit >= 0 THEN SubSeq(seq, 1, Min(limit, Len(seq)))
  ELSE SubSeq(seq, 1, Max(Len(seq) + limit, 0))

\* The response: each selected word with its status and strength.
Flashcards(all_words, pbw, limit) ==
  LET selected_words == Slice(Combined(all_words, pbw), limit)
  IN [i \in 1..Len(selected_words) |->
        [id |-> selected_words[i],
         status |-> IF selected_words[i] \in DOMAIN pbw
                    THEN pbw[selected_words[i]].status ELSE "new",
         strength |-> StrengthOf(pbw, selected_words[i])]]

\* ------------------------------------------------- update_word_progress
\* Variant of NewStrength: the floor of the decrement set at 1.
NewStrength_floorOne(known, current_strength) ==
  IF known THEN Min(current_strength + 1, MaxStrength)
  ELSE Max(current_strength - 1, 1)

\* Variant of NewStrength: the increment without its upper clamp.
NewStrength_noCap(known, current_strength) ==
  IF known THEN current_strength + 1
  ELSE Max(current_strength - 1, MinStrength)

\* Variant of NewStrength: a word that was not known starts over at 0.
NewStrength_reset(known, current_strength) ==
  IF known THEN Min(current_strength + 1, MaxStrength)
  ELSE MinStrength

NewStrength(known, current_strength) ==
  IF known THEN Min(current_strength + 1, MaxStrength)
  ELSE Max(current_strength - 1, MinStrength)

\* Variant of NewStatus: `>` for `>=` in the test for known.
NewStatus_strict(known, new_strength) ==
  IF known THEN (IF new_strength > MaxStrength THEN "known" ELSE "learning")
  ELSE (IF new_strength = 0 THEN "new" ELSE "learning")

NewStatus(known, new_strength) ==
  IF known THEN (IF new_strength >= MaxStrength THEN "known" ELSE "learning")
  ELSE (IF new_strength = 0 THEN "new" ELSE "learning")

\* progress = find_one({"word_id": word_id}), or a fresh document when None.
LoadProgress(coll, word_id, used) ==
  LET found == find_one(coll, "word_id", word_id)
  IN IF found = {} THEN NewProgress(uuid4(Ids(coll) \cup used), word_id)
     ELSE CHOOSE p \in found : TRUE

\* `if progress.get("id")`: the document has an id.
HasId(p) == "id" \in DOMAIN p

\* The write of the handler.
WriteProgress(coll, p, word_id, update_data, used) ==
  IF HasId(p) THEN update_one(coll, p.id, update_data)
  ELSE insert_one(coll, [id |-> uuid4(Ids(coll) \cup used), word_id |-> word_id,
                         status |-> update_data.status,
                         strength |-> update_data.strength])

\* ------------------------------------------------------------ results
\* fault: the number of the store operation of the request that raised (0: none).
NoCall == [op |-> "none", limit |-> 0, word_id |-> 0, known |-> FALSE, fault |-> 0]

\* The float progress_percentage is kept as an exact fraction <<num, den>> in
\* lowest terms (the rounding of the float operations is not represented).
NoStats == [known_words |-> 0, learning_words |-> 0, new_words |-> 0,
            total_words |-> 0, progress_percentage |-> <<0, 1>>]

NoRet == [kind |-> "none", flashcards |-> <<>>, new_status |-> "", new_strength |-> 0,
          stats |-> NoStats]


\* Each worker runs one handler at a time, one store operation per step. Its
\* locals: the arguments, progress_by_word_id (pbw), the loop position k, the
\* loaded progress document (doc, a set of zero or one) and the response.
StartProc(pc, limit, word_id, known) ==
  [pc |-> pc, limit |-> limit, word_id |-> word_id, known |-> known,
   pbw |-> <<>>, k |-> 0, doc |-> {}, ret |-> NoRet]

IdleProc == StartProc("idle", 0, 0, FALSE)

\* ------------------------------------------------------- sequential spec
Init ==
  /\ catalog \in {[i \in 1..n |-> i] : n \in 0..MaxWords}
  /\ progress = <<>>
  /\ call = NoCall
  /\ ret = NoRet
  /\ prevOp = "none"
  /\ procs = [p \in Procs |-> IdleProc]
  /\ streak = [w \in WordIds |-> 0]

get_flashcards(limit) ==
  LET all_words == catalog
      all_progress == progress
      st == CreateMissing([store |-> progress, pbw |-> ProgressByWordId(all_progress)],
                          all_words, Len(all_words), {})
  IN /\ progress' = st.store
     /\ ret' = [NoRet EXCEPT !.kind = "ok",
                             !.flashcards = Flashcards(all_words, st.pbw, limit)]
     /\ call' = [NoCall EXCEPT !.op = "NextBatch", !.limit = limit]
     /\ prevOp' = call.op
     /\ UNCHANGED <<catalog, procs>>

update_word_progress(word_id, known) ==
  /\ call' = [NoCall EXCEPT !.op = "RecordResponse", !.word_id = word_id, !.known = known]
  /\ prevOp' = call.op
  /\ UNCHANGED <<catalog, procs>>
  /\ IF ~WordExists(word_id)
     THEN /\ ret' = [NoRet EXCEPT !.kind = "NotFound"]
          /\ UNCHANGED progress
     ELSE LET p == LoadProgress(progress, word_id, {})
              new_strength == NewStrength(known, p.strength)
              new_status == NewStatus(known, new_strength)
              update_data == [status |-> new_status, strength |-> new_strength]
          IN /\ progress' = WriteProgress(progress, p, word_id, update_data, {p.id})
             /\ ret' = [NoRet EXCEPT !.kind = "ok", !.new_status = new_status,
                                     !.new_strength = new_strength]

\* streak is the client's record of its responses; it is kept in SpecStreak only.
Next ==
  \/ \E limit \in Limits : get_flashcards(limit) /\ UNCHANGED streak
  \/ \E word_id \in WordIds, known \in BOOLEAN :
       update_word_progress(word_id, known) /\ UNCHANGED streak

Spec == Init /\ [][Next]_vars

\* --------------------------------------------------------- get_user_stats
\* Variant of count_documents: the filter ignored, every document counted.
count_documents_noFilter(coll, field, value) == Len(coll)

\* collection.count_documents({field: value})
count_documents(coll, field, value) == Cardinality(MatchIdx(coll, field, value))

RECURSIVE Gcd(_, _)
Gcd(a, b) == IF b = 0 THEN a ELSE Gcd(b, a % b)

\* The fraction n / d (d > 0) in lowest terms.
Fraction(n, d) == IF n = 0 THEN <<0, 1>> ELSE <<n \div Gcd(n, d), d \div Gcd(n, d)>>

\* Variant of ProgressPercentage: the factor 100 left out.
ProgressPercentage_noScale(known_words, total_words) ==
  IF total_words > 0 THEN Fraction(known_words, total_words) ELSE <<0, 1>>

\* (known_words / total_words * 100) if total_words > 0 else 0
ProgressPercentage(known_words, total_words) ==
  IF total_words > 0
  THEN LET q == Fraction(known_words, total_words)
       IN Fraction(q[1] * 100, q[2])
  ELSE <<0, 1>>

get_user_stats ==
  LET total_words == Len(catalog)
      known_words == count_documents(progress, "status", "known")
      learning_words == count_documents(progress, "status", "learning")
      new_words == total_words - known_words - learning_words
  IN /\ ret' = [NoRet EXCEPT !.kind = "ok",
                  !.stats = [known_words |-> known_words,
                             learning_words |-> learning_words,
                             new_words |-> new_words,
                             total_words |-> total_words,
                             progress_percentage |->
                               ProgressPercentage(known_words, total_words)]]
     /\ call' = [NoCall EXCEPT !.op = "Stats"]
     /\ prevOp' = call.op
     /\ UNCHANGED <<catalog, progress, procs>>

NextStats ==
  \/ Next
  \/ get_user_stats /\ UNCHANGED streak

SpecStats == Init /\ [][NextStats]_vars

\* ------------------------------------------------------ store failures
\* A pymongo call that raises (the store is unavailable). Neither handler has a
\* try/except: the exception ends the handler at that call and the request
\* fails (HTTP 500); no later line runs. A write that raised may or may not
\* have reached the store (`applied`).
\* Variant of FailureResponse: the exception caught and a normal response sent.
FailureResponse_swallowed == [NoRet EXCEPT !.kind = "ok"]

FailureResponse == [NoRet EXCEPT !.kind = "error"]

InitFail == Init /\ Len(catalog) <= MaxFailWords

\* The catalog positions of the words the creation loop inserts a document for.
MissingIdx(all_words, pbw) == {k \in DOMAIN all_words : Lacks(pbw, all_words[k])}

\* The j-th smallest element of a set of numbers.
Nth(S, j) == CHOOSE k \in S : Cardinality({x \in S : x < k}) = j - 1

\* get_flashcards with store operation `fault` raising: 1 words find(), 2
\* progress find(), 2 + j the j-th insert_one of the creation loop.
get_flashcards_fault(limit, fault, applied) ==
  LET all_words == catalog
      pbw == ProgressByWordId(progress)
      missing == MissingIdx(all_words, pbw)
  IN /\ fault \in 1..(2 + Cardinality(missing))
     /\ fault <= 2 => ~applied
     /\ progress' =
          IF fault <= 2 THEN progress
          ELSE LET k == Nth(missing, fault - 2)
                   st == CreateMissing([store |-> progress, pbw |-> pbw],
                                       all_words, k - 1, {})
               IN IF applied THEN CreateOne(st, all_words[k], {}).store ELSE st.store
     /\ ret' = FailureResponse
     /\ call' = [NoCall EXCEPT !.op = "NextBatch", !.limit = limit, !.fault = fault]
     /\ prevOp' = call.op
     /\ UNCHANGED <<catalog, procs>>

\* update_word_progress with store operation `fault` raising: 1 the word
\* find_one, 2 the progress find_one, 3 update_one / insert_one.
update_word_progress_fault(word_id, known, fault, applied) ==
  /\ fault \in 1..3
  /\ fault > 1 => WordExists(word_id)
  /\ fault < 3 => ~applied
  /\ progress' =
       IF fault = 3 /\ applied
       THEN LET p == LoadProgress(progress, word_id, {})
                new_strength == NewStrength(known, p.strength)
                update_data == [status |-> NewStatus(known, new_strength),
                                strength |-> new_strength]
            IN WriteProgress(progress, p, word_id, update_data, {p.id})
       ELSE progress
  /\ ret' = FailureResponse
  /\ call' = [NoCall EXCEPT !.op = "RecordResponse", !.word_id = word_id,
                            !.known = known, !.fault = fault]
  /\ prevOp' = call.op
  /\ UNCHANGED <<catalog, procs>>

NextFail ==
  \/ Next
  \/ \E limit \in Limits, fault \in 1..(2 + MaxFailWords), applied \in BOOLEAN :
       get_flashcards_fault(limit, fault, applied) /\ UNCHANGED streak
  \/ \E word_id \in WordIds, known \in BOOLEAN, fault \in 1..3, applied \in BOOLEAN :
       update_word_progress_fault(word_id, known, fault, applied) /\ UNCHANGED streak

SpecFail == InitFail /\ [][NextFail]_vars

\* ------------------------------------------------------ response streaks
\* The client's record: for each word, the number (up to MaxStrength) of its
\* successful knewIt = true responses since the last knewIt = false response on
\* that word (or since the start).
StreakAfter(word_id, known, kind) ==
  IF kind = "ok"
  THEN [streak EXCEPT ![word_id] = IF known THEN Min(@ + 1, MaxStrength) ELSE 0]
  ELSE streak

InitStreak == Init /\ Len(catalog) <= MaxStreakWords

NextStreak ==
  \/ \E limit \in Limits : get_flashcards(limit) /\ UNCHANGED streak
  \/ \E word_id \in WordIds, known \in BOOLEAN :
       /\ update_word_progress(word_id, known)
       /\ streak' = StreakAfter(word_id, known, ret'.kind)

SpecStreak == InitStreak /\ [][NextStreak]_vars

\* ------------------------------------------------------- concurrent spec
\* Identifiers generated by a running handler and not (yet) in the store.
Held == UNION {{d.id : d \in procs[p].doc} : p \in {q \in Procs : procs[q].pc # "idle"}}

InitConc == Init /\ Len(catalog) <= MaxConcWords

\* all_progress = list(progress_collection.find())
gf_find(p, limit) ==
  /\ procs[p].pc = "idle"
  /\ procs' = [procs EXCEPT ![p] =
       [StartProc("gf_loop", limit, 0, FALSE) EXCEPT
          !.pbw = ProgressByWordId(progress), !.k = 1]]
  /\ UNCHANGED <<catalog, progress, call, ret, prevOp>>

\* one iteration of `for word in all_words`
gf_create(p) ==
  /\ procs[p].pc = "gf_loop"
  /\ procs[p].k <= Len(catalog)
  /\ LET st == CreateOne([store |-> progress, pbw |-> procs[p].pbw],
                         catalog[procs[p].k], Held)
     IN /\ progress' = st.store
        /\ procs' = [procs EXCEPT ![p].pbw = st.pbw, ![p].k = @ + 1]
  /\ UNCHANGED <<catalog, call, ret, prevOp>>

\* the selection and the response
gf_select(p) ==
  /\ procs[p].pc = "gf_loop"
  /\ procs[p].k > Len(catalog)
  /\ procs' = [procs EXCEPT ![p].pc = "gf_ret",
       ![p].ret = [NoRet EXCEPT !.kind = "ok",
                     !.flashcards = Flashcards(catalog, procs[p].pbw, procs[p].limit)]]
  /\ UNCHANGED <<catalog, progress, call, ret, prevOp>>

\* word = words_collection.find_one({"id": word_id}); 404 when None
up_word(p, word_id, known) ==
  /\ procs[p].pc = "idle"
  /\ procs' = [procs EXCEPT ![p] =
       IF WordExists(word_id) THEN StartProc("up_find", 0, word_id, known)
       ELSE [StartProc("up_ret", 0, word_id, known) EXCEPT
               !.ret = [NoRet EXCEPT !.kind = "NotFound"]]]
  /\ UNCHANGED <<catalog, progress, call, ret, prevOp>>

\* progress = progress_collection.find_one({"word_id": word_id})
up_find(p) ==
  /\ procs[p].pc = "up_find"
  /\ procs' = [procs EXCEPT ![p].pc = "up_write",
       ![p].doc = {LoadProgress(progress, procs[p].word_id, Held)}]
  /\ UNCHANGED <<catalog, progress, call, ret, prevOp>>

\* the transition and update_one / insert_one
up_write(p) ==
  /\ procs[p].pc = "up_write"
  /\ LET d == CHOOSE x \in procs[p].doc : TRUE
         new_strength == NewStrength(procs[p].known, d.strength)
         new_status == NewStatus(procs[p].known, new_strength)
         update_data == [status |-> new_status, strength |-> new_strength]
     IN /\ progress' = WriteProgress(progress, d, procs[p].word_id, update_data, Held)
        /\ procs' = [procs EXCEPT ![p].pc = "up_ret",
             ![p].ret = [NoRet EXCEPT !.kind = "ok", !.new_status = new_status,
                                      !.new_strength = new_strength]]
  /\ UNCHANGED <<catalog, call, ret, prevOp>>

\* The response is handed to the client and the handler's locals end.
respond(p) ==
  /\ procs[p].pc \in {"gf_ret", "up_ret"}
  /\ procs' = [procs EXCEPT ![p] = IdleProc]
  /\ UNCHANGED <<catalog, progress, call, ret, prevOp>>

NextConc ==
  \/ \E p \in Procs, limit \in Limits : gf_find(p, limit) /\ UNCHANGED streak
  \/ \E p \in Procs : gf_create(p) /\ UNCHANGED streak
  \/ \E p \in Procs : gf_select(p) /\ UNCHANGED streak
  \/ \E p \in Procs, word_id \in WordIds, known \in BOOLEAN :
       up_word(p, word_id, known) /\ UNCHANGED streak
  \/ \E p \in Procs : up_find(p) /\ UNCHANGED streak
  \/ \E p \in Procs : up_write(p) /\ UNCHANGED streak
  \/ \E p \in Procs : respond(p) /\ UNCHANGED streak

SpecConc == InitConc /\ [][NextConc]_vars

\* ================================================================ claims
\* The progress documents of word w, and the document find_one returns for it.
RecordsOf(coll, w) == MatchIdx(coll, "word_id", w)

RecordOf(coll, w) == coll[FirstIdx(RecordsOf(coll, w))]

\* The status that belongs to a strength.
StatusFor(strength) ==
  IF strength = 0 THEN "new" ELSE IF strength = 5 THEN "known" ELSE "learning"

\* The step just taken was RecordResponse / NextBatch (call' describes it).
IsRecordResponse == call'.op = "RecordResponse"

\* C1: RecordResponse on a catalog word with no progress record returns
\* (status', strength') and leaves exactly one record for that word in the
\* store, carrying that status' and strength'.
C1_RecordPersisted ==
  [][(IsRecordResponse /\ call'.word_id \in Range(catalog)
        /\ RecordsOf(progress, call'.word_id) = {})
     => /\ ret'.kind = "ok"
        /\ Cardinality(RecordsOf(progress', call'.word_id)) = 1
        /\ \A i \in RecordsOf(progress', call'.word_id) :
             /\ progress'[i].status = ret'.new_status
             /\ progress'[i].strength = ret'.new_strength]_vars

\* C2: for a stored strength s in 0..5 of the addressed word, RecordResponse
\* returns and stores min(s+1,5) when knewIt, max(s-1,0) otherwise.
C2_StrengthStep ==
  [][(IsRecordResponse /\ RecordsOf(progress, call'.word_id) # {})
     => LET s == RecordOf(progress, call'.word_id).strength
            expected == IF call'.known
                        THEN (IF s + 1 < 5 THEN s + 1 ELSE 5)
                        ELSE (IF s - 1 > 0 THEN s - 1 ELSE 0)
        IN /\ s \in 0..5
           /\ ret'.kind = "ok"
           /\ ret'.new_strength = expected
           /\ RecordsOf(progress', call'.word_id) # {}
           /\ RecordOf(progress', call'.word_id).strength = expected]_vars

\* A response that did not know a word stored at strength 0 left it at 0 (the
\* lower clamp), while a word stands at strength 5 after its increments.
C2_Witness ==
  /\ call.op = "RecordResponse" /\ prevOp = "RecordResponse"
  /\ ~call.known /\ ret.kind = "ok" /\ ret.new_strength = 0
  /\ RecordsOf(progress, call.word_id) # {}
  /\ RecordOf(progress, call.word_id).strength = 0
  /\ \E w \in Range(catalog) :
       RecordsOf(progress, w) # {} /\ RecordOf(progress, w).strength = 5

\* C3: every progress record in the store, and every result of RecordResponse,
\* has status new at strength 0, learning at 1..4 and known at 5.
C3_StatusFromStrength ==
  /\ \A i \in DOMAIN progress : progress[i].status = StatusFor(progress[i].strength)
  /\ (call.op = "RecordResponse" /\ ret.kind = "ok")
       => ret.new_status = StatusFor(ret.new_strength)

C3_Witness ==
  /\ call.op = "RecordResponse" /\ ret.kind = "ok" /\ ret.new_status = "known"
  /\ \E i, j, k \in DOMAIN progress :
       /\ progress[i].strength = 5
       /\ progress[j].strength \in 1..4
       /\ progress[k].strength = 0

\* C4: RecordResponse with a word id that is not in the catalog returns NotFound
\* and leaves the progress store as it was.
C4_NotFound ==
  [][(IsRecordResponse /\ call'.word_id \notin Range(catalog))
     => (ret'.kind = "NotFound" /\ progress' = progress)]_vars

C4_Witness ==
  /\ call.op = "RecordResponse" /\ call.word_id \notin Range(catalog)
  /\ ret.kind = "NotFound"
  /\ progress # <<>>

\* C5: RecordResponse on a word id of the catalog, with either knewIt, succeeds
\* and returns a status and a strength.
C5_CatalogWordSucceeds ==
  (call.op = "RecordResponse" /\ call.word_id \in Range(catalog))
    => /\ ret.kind = "ok"
       /\ ret.new_status \in {"new", "learning", "known"}
       /\ ret.new_strength \in 0..5

\* ... right after a NextBatch, with knewIt false, on a word at strength 0.
C5_Witness ==
  /\ call.op = "RecordResponse" /\ call.word_id \in Range(catalog)
  /\ prevOp = "NextBatch" /\ ~call.known
  /\ ret.kind = "ok" /\ ret.new_status = "new" /\ ret.new_strength = 0
  /\ RecordsOf(progress, call.word_id) # {}

\* C6: a NextBatch right after a NextBatch leaves at most one progress record
\* per word and keeps the status and strength of every record that existed.
C6_NextBatchIdempotent ==
  [][(call.op = "NextBatch" /\ call'.op = "NextBatch")
     => /\ \A w \in WordIds : Cardinality(RecordsOf(progress', w)) <= 1
        /\ \A i \in DOMAIN progress : \E j \in DOMAIN progress' :
             /\ progress'[j].id = progress[i].id
             /\ progress'[j].word_id = progress[i].word_id
             /\ progress'[j].status = progress[i].status
             /\ progress'[j].strength = progress[i].strength]_vars

C6_Witness ==
  /\ call.op = "NextBatch" /\ prevOp = "NextBatch"
  /\ Len(catalog) >= 2
  /\ \A w \in Range(catalog) : Cardinality(RecordsOf(progress, w)) = 1
  /\ \E i \in DOMAIN progress : progress[i].strength > 0

\* C7: with NextBatch calls running concurrently, the store never holds two
\* progress records for the same word id.
C7_NoDuplicateRecords ==
  \A w \in WordIds : Cardinality(RecordsOf(progress, w)) <= 1

\* C8: two RecordResponse calls on the same word that run concurrently lose no
\* update: once both have written, the stored strength is the result of applying
\* both responses, in some order, to the strength they started from.
C8_NoLostUpdate ==
  \A p, q \in Procs :
    (/\ p # q
     /\ procs[p].pc = "up_ret" /\ procs[q].pc = "up_ret"
     /\ procs[p].ret.kind = "ok" /\ procs[q].ret.kind = "ok"
     /\ procs[p].word_id = procs[q].word_id
     /\ Cardinality(RecordsOf(progress, procs[p].word_id)) = 1
     /\ \E d \in procs[p].doc, e \in procs[q].doc :
          d.id = e.id /\ d.strength = e.strength /\ d.id \in Ids(progress))
    => LET s == (CHOOSE d \in procs[p].doc : TRUE).strength
           Step(k, x) == IF k THEN (IF x + 1 < 5 THEN x + 1 ELSE 5)
                         ELSE (IF x - 1 > 0 THEN x - 1 ELSE 0)
       IN RecordOf(progress, procs[p].word_id).strength
            \in {Step(procs[q].known, Step(procs[p].known, s)),
                 Step(procs[p].known, Step(procs[q].known, s))}

\* The words of a batch, with the status the batch gives them.
BatchIdx(status) == {i \in DOMAIN ret.flashcards : ret.flashcards[i].status = status}

\* The catalog words whose record has one of the statuses.
WordsWith(statuses) ==
  {w \in Range(catalog) :
     RecordsOf(progress, w) # {} /\ RecordOf(progress, w).status \in statuses}

\* C9: in every batch the new words come before the learning words, which come
\* before the known words; so a known word is returned only when the number of
\* new and learning words is smaller than limit.
C9_PriorityOrder ==
  call.op = "NextBatch"
    => /\ \A i \in BatchIdx("new"), j \in BatchIdx("learning") : i < j
       /\ \A i \in BatchIdx("learning"), j \in BatchIdx("known") : i < j
       /\ \A i \in BatchIdx("new"), j \in BatchIdx("known") : i < j
       /\ BatchIdx("known") # {}
            => Cardinality(WordsWith({"new", "learning"})) < call.limit

\* The place of word w in the full priority ordering of the catalog: after the
\* words of an earlier bucket, after the learning words of lower strength, and
\* after the words of the same bucket (and strength) that precede it in the
\* catalog.
BucketNo(w) ==
  LET st == RecordOf(progress, w).status
  IN IF st = "new" THEN 0 ELSE IF st = "learning" THEN 1 ELSE 2

SortKey(w) ==
  IF RecordOf(progress, w).status = "learning" THEN RecordOf(progress, w).strength ELSE 0

CatalogIdx(w) == CHOOSE i \in DOMAIN catalog : catalog[i] = w

Precedes(v, w) ==
  \/ BucketNo(v) < BucketNo(w)
  \/ BucketNo(v) = BucketNo(w) /\ SortKey(v) < SortKey(w)
  \/ BucketNo(v) = BucketNo(w) /\ SortKey(v) = SortKey(w) /\ CatalogIdx(v) < CatalogIdx(w)

Place(w) == 1 + Cardinality({v \in Range(catalog) : Precedes(v, w)})

\* C10: for limit >= 1, NextBatch returns exactly the first
\* min(limit, catalog size) entries of new ++ learning-by-strength ++ known.
C10_Truncation ==
  (call.op = "NextBatch" /\ call.limit >= 1)
    => /\ Len(ret.flashcards) =
            (IF call.limit < Len(catalog) THEN call.limit ELSE Len(catalog))
       /\ \A i \in DOMAIN ret.flashcards :
            /\ ret.flashcards[i].id \in Range(catalog)
            /\ Place(ret.flashcards[i].id) = i

\* A batch cut short of the catalog, in which a word comes before a word that
\* precedes it in the catalog.
C10_Witness ==
  /\ call.op = "NextBatch" /\ call.limit >= 1 /\ call.limit < Len(catalog)
  /\ Len(ret.flashcards) = call.limit
  /\ \E i, j \in DOMAIN ret.flashcards :
       i < j /\ CatalogIdx(ret.flashcards[j].id) < CatalogIdx(ret.flashcards[i].id)

\* The word ids of the batch, in order.
BatchIds == [i \in DOMAIN ret.flashcards |-> ret.flashcards[i].id]

\* C11: NextBatch with limit <= 0 (zero or negative) returns an empty batch,
\* whatever the catalog and the progress store hold.
C11_NonPositiveLimitEmpty ==
  (call.op = "NextBatch" /\ call.limit <= 0) => ret.flashcards = <<>>

\* C12: NextBatch with limit >= catalog size returns every catalog word exactly
\* once: no word missing, none repeated.
C12_AllWordsOnce ==
  (call.op = "NextBatch" /\ call.limit >= Len(catalog))
    => /\ Len(ret.flashcards) = Len(catalog)
       /\ \A w \in Range(catalog) :
            Cardinality({i \in DOMAIN BatchIds : BatchIds[i] = w}) = 1

\* The whole catalog returned, with words of all three statuses, for a limit
\* above the catalog size.
C12_Witness ==
  /\ call.op = "NextBatch" /\ call.limit > Len(catalog) /\ Len(catalog) >= 3
  /\ Len(ret.flashcards) = Len(catalog)
  /\ BatchIdx("new") # {} /\ BatchIdx("learning") # {} /\ BatchIdx("known") # {}

\* The number of progress records with a status.
CountStatus(status) == Cardinality({i \in DOMAIN progress : progress[i].status = status})

\* C13: Stats returns new_count = total_words - known_count - learning_count,
\* and progress_percentage = known_count / total_words * 100 when total_words > 0
\* and 0 when total_words = 0.
C13_Stats ==
  call.op = "Stats"
    => LET s == ret.stats
       IN /\ ret.kind = "ok"
          /\ s.total_words = Len(catalog)
          /\ s.known_words = CountStatus("known")
          /\ s.learning_words = CountStatus("learning")
          /\ s.new_words = s.total_words - s.known_words - s.learning_words
          /\ s.progress_percentage[2] > 0
          /\ s.total_words > 0 =>
               s.progress_percentage[1] * s.total_words
                 = s.known_words * 100 * s.progress_percentage[2]
          /\ s.total_words = 0 => s.progress_percentage[1] = 0

\* Stats over three words, one known, one learning, one new: 100/3 percent.
C13_Witness ==
  /\ call.op = "Stats"
  /\ ret.stats.total_words = 3 /\ ret.stats.known_words = 1
  /\ ret.stats.learning_words = 1 /\ ret.stats.new_words = 1
  /\ ret.stats.progress_percentage = <<100, 3>>

\* C14: a word at strength 5 / known that receives one RecordResponse with
\* knewIt = false ends at strength 4 / learning; a known word leaves known only
\* through such a response, never directly to new or to strength 0.
C14_KnownRecovery ==
  [][\A i \in DOMAIN progress :
       (progress[i].status = "known" /\ progress[i].strength = 5)
         => \E j \in DOMAIN progress' :
              /\ progress'[j].id = progress[i].id
              /\ progress'[j].word_id = progress[i].word_id
              /\ IF /\ IsRecordResponse /\ ~call'.known
                    /\ call'.word_id = progress[i].word_id
                 THEN /\ progress'[j].status = "learning"
                      /\ progress'[j].strength = 4
                      /\ ret'.kind = "ok"
                      /\ ret'.new_status = "learning" /\ ret'.new_strength = 4
                 ELSE /\ progress'[j].status = "known"
                      /\ progress'[j].strength = 5]_vars

\* The response that took a known word to strength 4 / learning (a knewIt =
\* false result of 4 comes from strength 5 only).
C14_Witness ==
  /\ call.op = "RecordResponse" /\ ~call.known
  /\ ret.kind = "ok" /\ ret.new_status = "learning" /\ ret.new_strength = 4
  /\ RecordsOf(progress, call.word_id) # {}
  /\ RecordOf(progress, call.word_id).status = "learning"
  /\ RecordOf(progress, call.word_id).strength = 4

\* C15: RecordResponse on a catalog word with no progress record runs the
\* transition against status new, strength 0: it returns (learning, 1) for
\* knewIt = true and (new, 0) for knewIt = false, never known.
C15_DefaultsTransition ==
  [][(IsRecordResponse /\ call'.word_id \in Range(catalog)
        /\ RecordsOf(progress, call'.word_id) = {})
     => /\ ret'.kind = "ok"
        /\ ret'.new_status # "known"
        /\ IF call'.known
           THEN ret'.new_status = "learning" /\ ret'.new_strength = 1
           ELSE ret'.new_status = "new" /\ ret'.new_strength = 0]_vars

C15_Witness ==
  /\ call.op = "RecordResponse" /\ call.known
  /\ call.word_id \in Range(catalog)
  /\ RecordsOf(progress, call.word_id) = {}
  /\ ret.kind = "ok" /\ ret.new_status = "learning" /\ ret.new_strength = 1

\* C16: a store operation that fails during NextBatch or RecordResponse is
\* propagated to the caller as an error outcome: no normal batch and no normal
\* (status, strength) result is returned, and the operation is not retried (no
\* store operation follows the failed one: the store holds at most the writes
\* up to the failed one).
C16_FailurePropagates ==
  [][(call'.op \in {"NextBatch", "RecordResponse"} /\ call'.fault > 0)
     => /\ ret'.kind = "error"
        /\ ret'.flashcards = <<>> /\ ret'.new_status = ""
        /\ call'.op = "RecordResponse" =>
             /\ Len(progress') = Len(progress)
             /\ call'.fault < 3 => progress' = progress
        /\ call'.op = "NextBatch" =>
             /\ SubSeq(progress', 1, Len(progress)) = progress
             /\ call'.fault <= 2 => progress' = progress
             /\ call'.fault > 2 =>
                  Len(progress') - Len(progress) \in {call'.fault - 3, call'.fault - 2}]_vars

\* The second insert_one of a NextBatch raised: the request failed and the
\* store holds the first inserted document only.
C16_Witness ==
  /\ call.op = "NextBatch" /\ call.fault = 4 /\ ret.kind = "error"
  /\ Len(catalog) = 2 /\ Len(progress) = 1

\* C17: after a NextBatch, with any limit, every catalog word has a progress
\* record, and each record the call created has status new and strength 0;
\* records are created for all words lacking one, not only for those returned.
C17_AllWordsInitialized ==
  [][(call'.op = "NextBatch" /\ call'.fault = 0)
     => /\ \A w \in Range(catalog) : RecordsOf(progress', w) # {}
        /\ \A j \in DOMAIN progress' :
             progress'[j].id \notin Ids(progress)
               => /\ progress'[j].status = "new"
                  /\ progress'[j].strength = 0
                  /\ progress'[j].word_id \in Range(catalog)
                  /\ RecordsOf(progress, progress'[j].word_id) = {}]_vars

\* A first NextBatch with limit 1 on three words: one word returned, three
\* records created.
C17_Witness ==
  /\ call.op = "NextBatch" /\ prevOp = "none" /\ call.limit = 1
  /\ Len(catalog) = 3 /\ Len(ret.flashcards) = 1
  /\ \A w \in Range(catalog) :
       RecordsOf(progress, w) # {} /\ RecordOf(progress, w).strength = 0

\* C18: within the learning part of a batch the strengths do not decrease, and
\* two learning words of equal strength keep their catalog order.
C18_LearningOrder ==
  call.op = "NextBatch"
    => \A i, j \in BatchIdx("learning") :
         i < j => \/ ret.flashcards[i].strength < ret.flashcards[j].strength
                  \/ /\ ret.flashcards[i].strength = ret.flashcards[j].strength
                     /\ CatalogIdx(ret.flashcards[i].id) < CatalogIdx(ret.flashcards[j].id)

\* Three learning words: the weakest, last in the catalog, comes first, and the
\* two of equal strength follow in catalog order.
C18_Witness ==
  /\ call.op = "NextBatch" /\ Len(ret.flashcards) >= 3
  /\ \E i, j, k \in BatchIdx("learning") :
       /\ i < j /\ j < k
       /\ ret.flashcards[i].strength < ret.flashcards[j].strength
       /\ ret.flashcards[j].strength = ret.flashcards[k].strength
       /\ CatalogIdx(ret.flashcards[j].id) < CatalogIdx(ret.flashcards[i].id)

\* C19: within the new part and within the known part of a batch the words keep
\* their catalog order.
C19_BucketCatalogOrder ==
  call.op = "NextBatch"
    => \A status \in {"new", "known"} : \A i, j \in BatchIdx(status) :
         i < j => CatalogIdx(ret.flashcards[i].id) < CatalogIdx(ret.flashcards[j].id)

\* A batch with two known words after a new one.
C19_Witness ==
  /\ call.op = "NextBatch"
  /\ Cardinality(BatchIdx("known")) >= 2
  /\ BatchIdx("new") # {}

\* C20: a successful RecordResponse on word w changes at most the record of w:
\* the records of every other word (their number, status and strength) and the
\* catalog are as before.
C20_Frame ==
  [][(IsRecordResponse /\ ret'.kind = "ok")
     => /\ catalog' = catalog
        /\ Len(progress') >= Len(progress)
        /\ \A i \in DOMAIN progress :
             progress[i].word_id # call'.word_id => progress'[i] = progress[i]
        /\ \A j \in DOMAIN progress' :
             j > Len(progress) => progress'[j].word_id = call'.word_id]_vars

\* A response raised word w to a strength no other word has, while the other
\* words hold records of their own.
C20_Witness ==
  /\ call.op = "RecordResponse" /\ ret.kind = "ok" /\ call.known
  /\ RecordsOf(progress, call.word_id) # {}
  /\ RecordOf(progress, call.word_id).strength = ret.new_strength
  /\ Len(progress) >= 3
  /\ \A i \in DOMAIN progress :
       progress[i].word_id # call.word_id
         => progress[i].strength \notin {0, ret.new_strength}

\* C21: every entry of a NextBatch result carries the status and strength that
\* the word's progress record holds in the store when the call returns; and
\* when RecordResponse has just returned (status', strength') for word w, the
\* NextBatch that follows it with limit >= catalog size lists w with that
\* status' and strength'.
C21_BatchAnnotation ==
  [][(call'.op = "NextBatch" /\ call'.fault = 0)
     => /\ \A i \in DOMAIN ret'.flashcards :
             LET w == ret'.flashcards[i].id
             IN /\ RecordsOf(progress', w) # {}
                /\ ret'.flashcards[i].status = RecordOf(progress', w).status
                /\ ret'.flashcards[i].strength = RecordOf(progress', w).strength
        /\ (call.op = "RecordResponse" /\ ret.kind = "ok"
              /\ call'.limit >= Len(catalog))
             => \E i \in DOMAIN ret'.flashcards :
                  /\ ret'.flashcards[i].id = call.word_id
                  /\ ret'.flashcards[i].status = ret.new_status
                  /\ ret'.flashcards[i].strength = ret.new_strength]_vars

\* C22: in every reachable state, after any sequence of NextBatch and
\* RecordResponse calls, the strength of every progress record is an integer in
\* 0..5 and its status is one of new, learning, known.
C22_RecordDomain ==
  \A i \in DOMAIN progress :
    /\ progress[i].strength \in 0..5
    /\ progress[i].status \in {"new", "learning", "known"}

\* Records at both ends of the range and in between, after a response that
\* knew a word and left it at strength 5.
C22_Witness ==
  /\ call.op = "RecordResponse" /\ prevOp = "RecordResponse"
  /\ call.known /\ ret.kind = "ok" /\ ret.new_strength = 5
  /\ RecordsOf(progress, call.word_id) # {}
  /\ RecordOf(progress, call.word_id).strength = 5
  /\ \E i, j \in DOMAIN progress :
       /\ progress[i].strength = 0 /\ progress[i].status = "new"
       /\ progress[j].strength \in 1..4 /\ progress[j].status = "learning"

\* C23: for any catalog word, with or without a progress record, five
\* consecutive RecordResponse calls with knewIt = true on it (no knewIt = false
\* on that word in between) leave it at strength 5 / known, and NextBatch then
\* shows it as known (and lists it when limit >= catalog size).
C23_FiveKnown ==
  \A w \in Range(catalog) :
    streak[w] >= 5
      => /\ RecordsOf(progress, w) # {}
         /\ RecordOf(progress, w).strength = 5
         /\ RecordOf(progress, w).status = "known"
         /\ call.op = "NextBatch"
              => /\ \A i \in DOMAIN ret.flashcards :
                      ret.flashcards[i].id = w => ret.flashcards[i].status = "known"
                 /\ call.limit >= Len(catalog)
                      => \E i \in DOMAIN ret.flashcards : ret.flashcards[i].id = w

\* C24: in every state reachable by sequential NextBatch and RecordResponse
\* calls, the new_count that Stats reports is non-negative and equals the number
\* of catalog words whose progress record has status new or that have no
\* progress record; so known_count + learning_count never exceeds total_words.
C24_NewCount ==
  call.op = "Stats"
    => /\ ret.stats.new_words >= 0
       /\ ret.stats.new_words =
            Cardinality({w \in Range(catalog) :
                           \/ RecordsOf(progress, w) = {}
                           \/ RecordOf(progress, w).status = "new"})
       /\ ret.stats.known_words + ret.stats.learning_words <= ret.stats.total_words

\* Stats over three words with records, two of them known and one new.
C24_Witness ==
  /\ call.op = "Stats" /\ Len(catalog) = 3 /\ Len(progress) = 3
  /\ ret.stats.known_words = 2 /\ ret.stats.learning_words = 0
  /\ ret.stats.new_words = 1
  /\ Cardinality(WordsWith({"new"})) = 1

====
